---- MODULE Spec2Model ----
\* Model of Source/Readers/ImageReader/ImageSlimTransformers.cpp:
\* the crop, scale, mean and transpose transformers of the image reader,
\* their constructors, stream-level Transform (shape negotiation) and
\* per-sample Transform / Apply, called by concurrent workers.
EXTENDS Integers, Sequences, FiniteSets, TLC

\* ---------------------------------------------------------------- bounds
NumWorkers == 2      \* concurrent workers calling per-sample Transform
MaxDim == 3          \* sample rows / cols / channels range over 1..MaxDim
RatioDen == 4        \* crop ratios are k / RatioDen
SizeBits == 4        \* width of size_t in the model
MaxGens == 3         \* generators one pool creates before creation is capped
RngPeriod == 2       \* period of the position of a generator
MaxId == 11          \* sample ids are 0..MaxId

Workers == 1 .. NumWorkers
Dims == 1 .. MaxDim
SizeMod == 2 ^ SizeBits
SizeMax == SizeMod - 1
IntBits == SizeBits - 1     \* int is narrower than size_t
IntMod == 2 ^ IntBits

VARIABLES
    crop,       \* the SlimCropTransformer object
    scale,      \* the SlimScaleTransformer object
    mean,       \* the SlimMeanTransformer object
    stream,     \* per transformer: m_inputStream, m_outputStream, m_imageElementType
    m_rngs,     \* per transformer: the pool of generators (conc_stack)
    gens,       \* per transformer: generators created, alive, and their positions
    pc,         \* per worker: its position inside the per-sample Transform
    call,       \* per worker: the locals of the call in progress
    result      \* per worker: what its last per-sample Transform returned or threw

vars == <<crop, scale, mean, stream, m_rngs, gens, pc, call, result>>

Transformers == {"crop", "scale", "mean", "transpose"}
Pooled == {"crop", "scale"}

Min(a, b) == IF a <= b THEN a ELSE b

\* ---------------------------------------------------------------- strings
\* AreEqualIgnoreCase on the names the configuration can carry.
ToLower(s) ==
    CASE s = "Center" -> "center"
      [] s = "Random" -> "random"
      [] s = "MultiView10" -> "multiview10"
      [] s = "None" -> "none"
      [] s = "UniRatio" -> "uniratio"
      [] s = "UniLength" -> "unilength"
      [] s = "UniArea" -> "uniarea"
      [] s = "Linear" -> "linear"
      [] s = "CUBIC" -> "cubic"
      [] OTHER -> s

AreEqualIgnoreCase(a, b) == ToLower(a) = ToLower(b)

ParseCropType(src) ==
    IF src = "" \/ AreEqualIgnoreCase(src, "center") THEN "Center"
    ELSE IF AreEqualIgnoreCase(src, "random") THEN "Random"
    ELSE IF AreEqualIgnoreCase(src, "multiview10") THEN "MultiView10"
    ELSE "RuntimeError"

ParseJitterType(src) ==
    IF src = "" \/ AreEqualIgnoreCase(src, "none") THEN "None"
    ELSE IF AreEqualIgnoreCase(src, "uniratio") THEN "UniRatio"
    ELSE IF AreEqualIgnoreCase(src, "unilength") THEN "UniLength"
    ELSE IF AreEqualIgnoreCase(src, "uniarea") THEN "UniArea"
    ELSE "RuntimeError"

\* ---------------------------------------------------------------- state
NoObject == [state |-> "none"]
NoStream == [status |-> "none"]
NoCall == [t |-> "none"]
NoResult == [t |-> "none"]
NoGens == [created |-> 0, alive |-> {}, pos |-> [g \in 1 .. MaxGens |-> 0]]

Init ==
    /\ crop = NoObject
    /\ scale = NoObject
    /\ mean = NoObject
    /\ stream = [t \in Transformers |-> NoStream]
    /\ m_rngs = [t \in Pooled |-> {}]
    /\ gens = [t \in Pooled |-> NoGens]
    /\ pc = [w \in Workers |-> "idle"]
    /\ call = [w \in Workers |-> NoCall]
    /\ result = [w \in Workers |-> NoResult]

\* ---------------------------------------------------------------- constructors
\* SlimCropTransformer::SlimCropTransformer. rmin, rmax are the numerators of
\* cropRatio[0], cropRatio[1]; hflip is "unset" when the key does not exist.
CropCtor(cropType, rmin, rmax, jitterType, hflip) ==
    /\ crop = NoObject
    /\ LET ct == ParseCropType(cropType)
           jt == ParseJitterType(jitterType)
           badRatio == \/ ~(0 < rmin /\ rmin <= RatioDen)
                       \/ ~(0 < rmax /\ rmax <= RatioDen)
                       \/ rmin > rmax
       IN  crop' = IF ct = "RuntimeError" \/ badRatio \/ jt = "RuntimeError"
                   THEN [state |-> "error"]
                   ELSE [state |-> "ok",
                         m_cropType |-> ct,
                         m_cropRatioMin |-> rmin,
                         m_cropRatioMax |-> rmax,
                         m_jitterType |-> jt,
                         m_hFlip |-> IF hflip = "unset" THEN ct = "Random"
                                     ELSE hflip = "true"]
    /\ UNCHANGED <<scale, mean, stream, m_rngs, gens, pc, call, result>>

m_interpMap == {"nearest", "linear", "cubic", "lanczos"}

\* SlimScaleTransformer::SlimScaleTransformer. cfeat is computed in size_t.
\* interpolations is the sequence of the ':'-separated tokens of the key.
ScaleCtor(width, height, channels, interpolations) ==
    /\ scale = NoObject
    /\ LET cfeat == (width * height * channels) % SizeMod
       IN  scale' = IF cfeat = 0 \/ cfeat > SizeMax \div 2
                    THEN [state |-> "error"]
                    ELSE [state |-> "ok",
                          m_imgWidth |-> width,
                          m_imgHeight |-> height,
                          m_imgChannels |-> channels,
                          m_interp |-> LET found == SelectSeq(
                                               [i \in 1 .. Len(interpolations) |->
                                                   ToLower(interpolations[i])],
                                               LAMBDA tok : tok \in m_interpMap)
                                       IN  IF Len(found) = 0 THEN <<"linear">>
                                           ELSE found]
    /\ UNCHANGED <<crop, mean, stream, m_rngs, gens, pc, call, result>>

\* SlimMeanTransformer::SlimMeanTransformer. file is NoFile (meanFile empty),
\* "unreadable", or the record of the fields Channel, Row, Col and MeanImg.
NoFile == [kind |-> "empty"]
NoMeanImg == [rows |-> 0, cols |-> 0, channels |-> 1, data |-> <<>>]

MeanCtor(file) ==
    /\ mean = NoObject
    /\ mean' =
         IF file.kind = "empty" THEN [state |-> "ok", m_meanImg |-> NoMeanImg]
         ELSE IF file.kind = "unreadable" THEN [state |-> "error"]
         ELSE IF file.Channel * file.Row * file.Col # Len(file.MeanImg)
              THEN [state |-> "error"]
              ELSE [state |-> "ok",
                    m_meanImg |-> [rows |-> file.Row, cols |-> file.Col,
                                   channels |-> file.Channel, data |-> file.MeanImg]]
    /\ UNCHANGED <<crop, scale, stream, m_rngs, gens, pc, call, result>>

\* ---------------------------------------------------------------- streams
\* A stream description: storage type, element type and sample layout.
HWC(width, height, channels) ==
    [kind |-> "HWC", width |-> width, height |-> height, channels |-> channels]

\* ImageDimensions(layout, HWC).AsTensorShape(CHW): same dimensions, planar order.
AsTensorShapeCHW(layout) ==
    [kind |-> "CHW", width |-> layout.width, height |-> layout.height,
     channels |-> layout.channels]

GetNumElements(layout) == layout.width * layout.height * layout.channels

\* BaseTransformStream without the test of the element type.
BaseTransformStreamAnyType(t, inputStream) ==
    /\ t \in {"crop", "scale", "mean"}
    /\ stream[t] = NoStream
    /\ stream' = [stream EXCEPT ![t] =
         [status |-> IF inputStream.m_storageType # "dense" THEN "LogicError" ELSE "ok",
          m_inputStream |-> inputStream,
          m_outputStream |-> inputStream,
          m_imageElementType |-> "CV_32F"]]
    /\ UNCHANGED <<crop, scale, mean, m_rngs, gens, pc, call, result>>

\* SlimImageTransformerBase::Transform(const StreamDescription&), for the
\* transformers derived from the base (crop, scale, mean).
BaseTransformStream(t, inputStream) ==
    /\ t \in {"crop", "scale", "mean"}
    /\ stream[t] = NoStream
    /\ stream' = [stream EXCEPT ![t] =
         [status |-> IF inputStream.m_storageType # "dense" THEN "LogicError"
                     ELSE IF inputStream.m_elementType \in {"tdouble", "tfloat"} THEN "ok"
                     ELSE "RuntimeError",
          m_inputStream |-> inputStream,
          m_outputStream |-> inputStream,
          m_imageElementType |->
              IF inputStream.m_storageType # "dense" THEN "0"
              ELSE IF inputStream.m_elementType = "tdouble" THEN "CV_64F"
              ELSE IF inputStream.m_elementType = "tfloat" THEN "CV_32F"
              ELSE "0"]]
    /\ UNCHANGED <<crop, scale, mean, m_rngs, gens, pc, call, result>>

\* SlimTransposeTransformer::Transform(const StreamDescription&).
TransposeTransformStream(inputStream) ==
    /\ stream["transpose"] = NoStream
    /\ stream' = [stream EXCEPT !["transpose"] =
         [status |-> IF inputStream.m_storageType # "dense" THEN "LogicError" ELSE "ok",
          m_inputStream |-> inputStream,
          m_outputStream |-> [inputStream EXCEPT
              !.m_sampleLayout = AsTensorShapeCHW(inputStream.m_sampleLayout)],
          m_imageElementType |-> "0"]]
    /\ UNCHANGED <<crop, scale, mean, m_rngs, gens, pc, call, result>>

\* The pipeline constructs a transformer, negotiates its stream once, and
\* sends samples through it only after both succeeded.
Constructed(t) ==
    CASE t = "crop" -> crop.state = "ok"
      [] t = "scale" -> scale.state = "ok"
      [] t = "mean" -> mean.state = "ok"
      [] t = "transpose" -> TRUE

Ready(t) == Constructed(t) /\ stream[t].status = "ok"

\* ---------------------------------------------------------------- generator pool
\* m_rngs.pop_or_create(factory): atomically take an available generator g,
\* or, when none is available, make a new one seeded with GetSeed().
pop_or_create(t, g) ==
    /\ \/ /\ g \in m_rngs[t]
          /\ gens' = gens
       \/ /\ m_rngs[t] = {}
          /\ g = gens[t].created + 1
          /\ g <= MaxGens
          /\ gens' = [gens EXCEPT ![t].created = g,
                                  ![t].alive = @ \cup {g},
                                  ![t].pos[g] = 0]
    /\ m_rngs' = [m_rngs EXCEPT ![t] = @ \ {g}]

\* m_rngs.push(std::move(rng)).
push(t, g) == [m_rngs EXCEPT ![t] = @ \cup {g}]

\* n draws from generator g of transformer t.
Advance(t, g, n) == [gens EXCEPT ![t].pos[g] = (@ + n) % RngPeriod]

\* A std::unique_ptr<std::mt19937> that goes out of scope while it still
\* owns its generator destroys the generator.
Destroy(t, g) == [gens EXCEPT ![t].alive = @ \ {g}]

\* ---------------------------------------------------------------- crop
\* SlimCropTransformer::GetCropRect: the rectangles it can return, one per
\* outcome of the draws from rng. cropRatio is the numerator over RatioDen.
\* asserted is the conjunction of its two closing assertions.
Rect(xOff, yOff, cropSize, crow, ccol) ==
    [x |-> xOff, y |-> yOff, width |-> cropSize, height |-> cropSize,
     asserted |-> /\ 0 <= xOff /\ xOff <= ccol - cropSize
                  /\ 0 <= yOff /\ yOff <= crow - cropSize]

\* GetCropRect with offsets drawn without regard to the crop size.
GetCropRectAnyOffset(type, viewIndex, crow, ccol, cropRatio) ==
    LET cropSize == (Min(crow, ccol) * cropRatio) \div RatioDen
    IN  {Rect(xOff, yOff, cropSize, crow, ccol) : xOff \in 0 .. ccol, yOff \in 0 .. crow}

GetCropRect(type, viewIndex, crow, ccol, cropRatio) ==
    LET cropSize == (Min(crow, ccol) * cropRatio) \div RatioDen
        isubView == viewIndex % 5
    IN  CASE type = "Center" ->
                {Rect((ccol - cropSize) \div 2, (crow - cropSize) \div 2,
                      cropSize, crow, ccol)}
          [] type = "Random" ->
                {Rect(xOff, yOff, cropSize, crow, ccol) :
                    xOff \in 0 .. (ccol - cropSize), yOff \in 0 .. (crow - cropSize)}
          [] type = "MultiView10" ->
                CASE isubView = 0 -> {Rect(0, 0, cropSize, crow, ccol)}
                  [] isubView = 1 -> {Rect(ccol - cropSize, 0, cropSize, crow, ccol)}
                  [] isubView = 2 -> {Rect(0, crow - cropSize, cropSize, crow, ccol)}
                  [] isubView = 3 -> {Rect(ccol - cropSize, crow - cropSize,
                                           cropSize, crow, ccol)}
                  [] isubView = 4 -> {Rect((ccol - cropSize) \div 2,
                                           (crow - cropSize) \div 2,
                                           cropSize, crow, ccol)}

\* Number of draws GetCropRect takes from rng.
GetCropRectDraws(type) == IF type = "Random" THEN 2 ELSE 0

\* Base Transform(SequenceDataPtr) up to the call of Apply, then the head of
\* SlimCropTransformer::Apply: borrow a generator.
CropBegin(w, id, rows, cols, channels) ==
    /\ pc[w] = "idle"
    /\ Ready("crop")
    /\ result' = [result EXCEPT ![w] = NoResult]
    /\ \E g \in 1 .. MaxGens :
          /\ pop_or_create("crop", g)
          /\ call' = [call EXCEPT ![w] =
                [t |-> "crop", id |-> id,
                 in |-> [rows |-> rows, cols |-> cols, channels |-> channels],
                 mat |-> [rows |-> rows, cols |-> cols, channels |-> channels],
                 rng |-> g, ratio |-> 0]]
    /\ pc' = [pc EXCEPT ![w] = "jitter"]
    /\ UNCHANGED <<crop, scale, mean, stream>>

\* The switch on m_jitterType. Its default branch throws while rng still
\* owns the borrowed generator.
CropJitter(w) ==
    /\ pc[w] = "jitter"
    /\ LET g == call[w].rng IN
       CASE crop.m_jitterType = "None"
              \/ (crop.m_jitterType = "UniRatio"
                    /\ crop.m_cropRatioMin = crop.m_cropRatioMax) ->
                /\ call' = [call EXCEPT ![w].ratio = crop.m_cropRatioMin]
                /\ pc' = [pc EXCEPT ![w] = "crop"]
                /\ UNCHANGED <<gens, result>>
         [] crop.m_jitterType = "UniRatio"
              /\ crop.m_cropRatioMin # crop.m_cropRatioMax ->
                /\ \E r \in crop.m_cropRatioMin .. (crop.m_cropRatioMax - 1) :
                      call' = [call EXCEPT ![w].ratio = r]
                /\ gens' = Advance("crop", g, 1)
                /\ pc' = [pc EXCEPT ![w] = "crop"]
                /\ UNCHANGED result
         [] OTHER ->
                /\ gens' = Destroy("crop", g)
                /\ result' = [result EXCEPT ![w] =
                      [t |-> "crop", status |-> "RuntimeError",
                       id |-> call[w].id, in |-> call[w].in]]
                /\ call' = [call EXCEPT ![w] = NoCall]
                /\ pc' = [pc EXCEPT ![w] = "idle"]
    /\ UNCHANGED <<crop, scale, mean, stream, m_rngs>>

\* assert(e) aborts in a build with assertions when e is false, and is
\* compiled out under NDEBUG: the builds in which control continues past it.
AssertBuilds(e) == IF e THEN {"continue"} ELSE {"abort", "continue"}

\* viewIndex, mat = mat(GetCropRect(...)), and the flip.
CropRectFlip(w) ==
    /\ pc[w] = "crop"
    /\ LET g == call[w].rng
           viewIndex == IF crop.m_cropType = "MultiView10" THEN call[w].id % 10 ELSE 0
       IN  \E rect \in GetCropRect(crop.m_cropType, viewIndex, call[w].mat.rows,
                                    call[w].mat.cols, call[w].ratio) :
           \E bernoulli \in (IF crop.m_hFlip THEN BOOLEAN ELSE {FALSE}),
              build \in AssertBuilds(rect.asserted) :
             /\ gens' = Advance("crop", g, GetCropRectDraws(crop.m_cropType)
                                             + (IF crop.m_hFlip THEN 1 ELSE 0))
             /\ IF build = "abort"
                THEN /\ result' = [result EXCEPT ![w] =
                           [t |-> "crop", status |-> "AssertionFailed",
                            id |-> call[w].id, in |-> call[w].in]]
                     /\ call' = [call EXCEPT ![w] = NoCall]
                     /\ pc' = [pc EXCEPT ![w] = "idle"]
                ELSE /\ call' = [call EXCEPT ![w] =
                           [t |-> "crop", id |-> @.id, in |-> @.in, rng |-> g,
                            ratio |-> @.ratio, viewIndex |-> viewIndex, rect |-> rect,
                            mat |-> [rows |-> rect.height, cols |-> rect.width,
                                     channels |-> @.mat.channels],
                            flipped |-> (crop.m_hFlip /\ bernoulli) \/ viewIndex >= 5]]
                     /\ pc' = [pc EXCEPT ![w] = "push"]
                     /\ UNCHANGED result
    /\ UNCHANGED <<crop, scale, mean, stream, m_rngs>>

\* The tail of Apply returns the generator; the base Transform then builds
\* the result with the sample layout of the buffer.
CropEnd(w) ==
    /\ pc[w] = "push"
    /\ call[w].t = "crop"
    /\ m_rngs' = push("crop", call[w].rng)
    /\ result' = [result EXCEPT ![w] =
          [t |-> "crop", status |-> "ok", id |-> call[w].id, in |-> call[w].in,
           ratio |-> call[w].ratio, viewIndex |-> call[w].viewIndex,
           rect |-> call[w].rect, flipped |-> call[w].flipped,
           m_sampleLayout |-> HWC(call[w].mat.cols, call[w].mat.rows,
                                  call[w].mat.channels)]]
    /\ call' = [call EXCEPT ![w] = NoCall]
    /\ pc' = [pc EXCEPT ![w] = "idle"]
    /\ UNCHANGED <<crop, scale, mean, stream, gens>>

\* ---------------------------------------------------------------- scale
\* static_cast<int> of a size_t: truncation to IntBits, two's complement.
ToInt(x) ==
    LET m == x % IntMod
    IN  IF m >= IntMod \div 2 THEN m - IntMod ELSE m

\* Base Transform(SequenceDataPtr) up to the call of Apply, then the head of
\* SlimScaleTransformer::Apply: convertTo when the type differs, and borrow a
\* generator. convertTo changes the depth only, never the channel count.
ScaleBegin(w, id, rows, cols, channels) ==
    /\ pc[w] = "idle"
    /\ Ready("scale")
    /\ result' = [result EXCEPT ![w] = NoResult]
    /\ \E g \in 1 .. MaxGens :
          /\ pop_or_create("scale", g)
          /\ call' = [call EXCEPT ![w] =
                [t |-> "scale", id |-> id,
                 in |-> [rows |-> rows, cols |-> cols, channels |-> channels],
                 mat |-> [rows |-> rows, cols |-> cols, channels |-> channels],
                 converted |-> channels # scale.m_imgChannels,
                 rng |-> g]]
    /\ pc' = [pc EXCEPT ![w] = "resize"]
    /\ UNCHANGED <<crop, scale, mean, stream>>

\* ScaleResize that returns the generator to the pool before it is done with it.
ScaleResizeEarlyPush(w) ==
    /\ pc[w] = "resize"
    /\ LET g == call[w].rng IN
       \E index \in 0 .. (Len(scale.m_interp) - 1) :
          /\ m_rngs' = push("scale", g)
          /\ gens' = Advance("scale", g, 1)
          /\ call' = [call EXCEPT ![w] =
                [t |-> "scale", id |-> @.id, in |-> @.in, rng |-> g,
                 converted |-> @.converted,
                 interp |-> scale.m_interp[index + 1],
                 mat |-> [rows |-> ToInt(scale.m_imgHeight),
                          cols |-> ToInt(scale.m_imgWidth),
                          channels |-> @.mat.channels]]]
          /\ pc' = [pc EXCEPT ![w] = "push"]
    /\ UNCHANGED <<crop, scale, mean, stream, result>>

\* The draw of the interpolation index and cv::resize to
\* cv::Size((int) m_imgWidth, (int) m_imgHeight). cv::resize throws on a
\* size that is not positive, while rng still owns the borrowed generator.
ScaleResize(w) ==
    /\ pc[w] = "resize"
    /\ LET g == call[w].rng
           dwidth == ToInt(scale.m_imgWidth)
           dheight == ToInt(scale.m_imgHeight)
       IN  \E index \in 0 .. (Len(scale.m_interp) - 1) :
             IF dwidth <= 0 \/ dheight <= 0
             THEN /\ gens' = Destroy("scale", g)
                  /\ result' = [result EXCEPT ![w] =
                        [t |-> "scale", status |-> "cv::Exception",
                         id |-> call[w].id, in |-> call[w].in]]
                  /\ call' = [call EXCEPT ![w] = NoCall]
                  /\ pc' = [pc EXCEPT ![w] = "idle"]
             ELSE /\ gens' = Advance("scale", g, 1)
                  /\ call' = [call EXCEPT ![w] =
                        [t |-> "scale", id |-> @.id, in |-> @.in, rng |-> g,
                         converted |-> @.converted,
                         interp |-> scale.m_interp[index + 1],
                         mat |-> [rows |-> dheight, cols |-> dwidth,
                                  channels |-> @.mat.channels]]]
                  /\ pc' = [pc EXCEPT ![w] = "push"]
                  /\ UNCHANGED result
    /\ UNCHANGED <<crop, scale, mean, stream, m_rngs>>

\* The tail of Apply returns the generator; the base Transform then builds
\* the result with the sample layout of the buffer.
ScaleEnd(w) ==
    /\ pc[w] = "push"
    /\ call[w].t = "scale"
    /\ m_rngs' = push("scale", call[w].rng)
    /\ result' = [result EXCEPT ![w] =
          [t |-> "scale", status |-> "ok", id |-> call[w].id, in |-> call[w].in,
           interp |-> call[w].interp,
           m_sampleLayout |-> HWC(call[w].mat.cols, call[w].mat.rows,
                                  call[w].mat.channels)]]
    /\ call' = [call EXCEPT ![w] = NoCall]
    /\ pc' = [pc EXCEPT ![w] = "idle"]
    /\ UNCHANGED <<crop, scale, mean, stream, gens>>

\* ---------------------------------------------------------------- mean
\* Base Transform(SequenceDataPtr) around SlimMeanTransformer::Apply.
\* sample is [rows, cols, channels, data]. cv::Mat::size() compares the pixel
\* dimensions only; mat - m_meanImg with differing channel counts is rejected
\* by the library.
MeanTransform(w, id, sample) ==
    /\ pc[w] = "idle"
    /\ Ready("mean")
    /\ LET m == mean.m_meanImg
           sizeEqual == m.cols = sample.cols /\ m.rows = sample.rows
           asserted == \/ (m.cols = 0 /\ m.rows = 0)
                       \/ (sizeEqual /\ m.channels = sample.channels)
       IN  \E build \in AssertBuilds(asserted) :
             result' = [result EXCEPT ![w] =
               [t |-> "mean", id |-> id, in |-> sample,
                status |-> IF build = "abort" THEN "AssertionFailed"
                           ELSE IF sizeEqual /\ m.channels # sample.channels
                                THEN "cv::Exception"
                                ELSE "ok",
                data |-> IF build = "continue" /\ sizeEqual
                            /\ m.channels = sample.channels
                         THEN [i \in 1 .. Len(sample.data) |->
                                  sample.data[i] - m.data[i]]
                         ELSE sample.data,
                m_sampleLayout |-> HWC(sample.cols, sample.rows, sample.channels)]]
    /\ UNCHANGED <<crop, scale, mean, stream, m_rngs, gens, pc, call>>

\* ---------------------------------------------------------------- transpose
\* SlimTransposeTransformer::Transform(SequenceDataPtr) and the head of
\* TypedApply. The sample carries m_numberOfSamples and m_data, a buffer of
\* the elements of one sample of the input stream, indexed from 0.
TransposeBegin(w, sample) ==
    /\ pc[w] = "idle"
    /\ Ready("transpose")
    /\ LET in == stream["transpose"].m_inputStream
           dimensions == in.m_sampleLayout
           count == GetNumElements(dimensions)
       IN  /\ DOMAIN sample.m_data = 0 .. (count - 1)
           /\ IF in.m_elementType \notin {"tdouble", "tfloat"}
              THEN /\ result' = [result EXCEPT ![w] =
                         [t |-> "transpose", status |-> "RuntimeError"]]
                   /\ UNCHANGED <<pc, call>>
              ELSE \E build \in AssertBuilds(sample.m_numberOfSamples = 1) :
                     IF build = "abort"
                     THEN /\ result' = [result EXCEPT ![w] =
                                [t |-> "transpose", status |-> "AssertionFailed"]]
                          /\ UNCHANGED <<pc, call>>
                     ELSE /\ result' = [result EXCEPT ![w] = NoResult]
                          /\ call' = [call EXCEPT ![w] =
                                [t |-> "transpose",
                                 m_numberOfSamples |-> sample.m_numberOfSamples,
                                 src |-> sample.m_data,
                                 dst |-> [i \in 0 .. (count - 1) |-> 0],
                                 written |-> [i \in 0 .. (count - 1) |-> 0],
                                 rowCount |-> dimensions.height * dimensions.width,
                                 channelCount |-> dimensions.channels,
                                 irow |-> 0, icol |-> 0]]
                          /\ pc' = [pc EXCEPT ![w] = "loop"]
    /\ UNCHANGED <<crop, scale, mean, stream, m_rngs, gens>>

\* TransposeStep with the two strides exchanged.
TransposeStepSwappedStride(w) ==
    /\ pc[w] = "loop"
    /\ LET c == call[w] IN
       /\ c.irow < c.rowCount
       /\ c.icol < c.channelCount
       /\ call' = [call EXCEPT ![w] =
             [c EXCEPT
                !.dst[c.irow * c.channelCount + c.icol] = c.src[c.icol * c.rowCount + c.irow],
                !.written[c.irow * c.channelCount + c.icol] = @ + 1,
                !.icol = IF c.icol + 1 < c.channelCount THEN c.icol + 1 ELSE 0,
                !.irow = IF c.icol + 1 < c.channelCount THEN c.irow ELSE c.irow + 1]]
    /\ UNCHANGED <<crop, scale, mean, stream, m_rngs, gens, pc, result>>

\* One iteration of the inner loop of TypedApply:
\* dst[icol * rowCount + irow] = src[irow * channelCount + icol].
\* written counts the stores to each element of dst.
TransposeStep(w) ==
    /\ pc[w] = "loop"
    /\ LET c == call[w] IN
       /\ c.irow < c.rowCount
       /\ c.icol < c.channelCount
       /\ call' = [call EXCEPT ![w] =
             [c EXCEPT
                !.dst[c.icol * c.rowCount + c.irow] = c.src[c.irow * c.channelCount + c.icol],
                !.written[c.icol * c.rowCount + c.irow] = @ + 1,
                !.icol = IF c.icol + 1 < c.channelCount THEN c.icol + 1 ELSE 0,
                !.irow = IF c.icol + 1 < c.channelCount THEN c.irow ELSE c.irow + 1]]
    /\ UNCHANGED <<crop, scale, mean, stream, m_rngs, gens, pc, result>>

\* The loops are over; TypedApply returns the new sequence.
TransposeEnd(w) ==
    /\ pc[w] = "loop"
    /\ call[w].irow >= call[w].rowCount \/ call[w].channelCount = 0
    /\ result' = [result EXCEPT ![w] =
          [t |-> "transpose", status |-> "ok",
           src |-> call[w].src,
           m_data |-> call[w].dst,
           written |-> call[w].written,
           m_numberOfSamples |-> call[w].m_numberOfSamples,
           m_sampleLayout |-> stream["transpose"].m_outputStream.m_sampleLayout]]
    /\ call' = [call EXCEPT ![w] = NoCall]
    /\ pc' = [pc EXCEPT ![w] = "idle"]
    /\ UNCHANGED <<crop, scale, mean, stream, m_rngs, gens>>

\* ---------------------------------------------------------------- environments
CropRatios == {0, 1, RatioDen \div 2, RatioDen, RatioDen + 2}
SampleIds == 0 .. MaxId
Stream(storageType, elementType, layout) ==
    [m_storageType |-> storageType, m_elementType |-> elementType,
     m_sampleLayout |-> layout]
DenseFloat(layout) == Stream("dense", "tfloat", layout)
Streams(layout) ==
    {Stream(st, et, layout) :
        st \in {"dense", "sparse_csc"}, et \in {"tfloat", "tdouble", "tatom"}}

\* One worker, the crop transformer, every crop type, ratio and sample size.
NextCrop ==
    \/ \E ct \in {"", "Random", "multiview10", "diagonal"}, rmin, rmax \in CropRatios,
          jt \in {"", "UniRatio", "unilength", "gauss"}, hf \in {"unset", "false"} :
          CropCtor(ct, rmin, rmax, jt, hf)
    \/ BaseTransformStream("crop", DenseFloat(HWC(MaxDim, MaxDim, 1)))
    \/ \E id \in SampleIds, rows, cols \in Dims : CropBegin(1, id, rows, cols, 1)
    \/ CropJitter(1)
    \/ CropRectFlip(1)
    \/ CropEnd(1)

SpecCrop == Init /\ [][NextCrop]_vars

\* Workers sharing one MultiView10 crop transformer.
NextMultiView ==
    \/ \E hf \in {"unset", "true", "false"} :
          CropCtor("MultiView10", RatioDen \div 2, RatioDen \div 2, "None", hf)
    \/ BaseTransformStream("crop", DenseFloat(HWC(MaxDim, MaxDim, 1)))
    \/ \E w \in Workers :
          \/ \E id \in {1, 6, MaxId} : CropBegin(w, id, MaxDim, MaxDim - 1, 1)
          \/ CropJitter(w)
          \/ CropRectFlip(w)
          \/ CropEnd(w)

SpecMultiView == Init /\ [][NextMultiView]_vars

\* Workers sharing one crop and one scale transformer and their pools.
NextPool ==
    \/ \E jt \in {"UniRatio", "UniLength"} :
          CropCtor("Center", RatioDen \div 2, RatioDen, jt, "unset")
    \/ ScaleCtor(2, 1, 1, <<"nearest", "CUBIC">>)
    \/ \E t \in {"crop", "scale"} : BaseTransformStream(t, DenseFloat(HWC(2, 2, 1)))
    \/ \E w \in Workers :
          \/ CropBegin(w, 0, 2, 2, 1)
          \/ CropJitter(w)
          \/ CropRectFlip(w)
          \/ CropEnd(w)
          \/ ScaleBegin(w, 0, 2, 2, 1)
          \/ ScaleResize(w)
          \/ ScaleEnd(w)

SpecPool == Init /\ [][NextPool]_vars

\* The constructor of the scale transformer on every size_t triple.
NextCtor ==
    \E width, height, channels \in 0 .. SizeMax,
       interp \in {<<>>, <<"Linear", "bicubic">>} :
       ScaleCtor(width, height, channels, interp)

SpecCtor == Init /\ [][NextCtor]_vars

\* One worker and the scale transformer.
NextScale ==
    \/ \E width, height \in {1, 2, IntMod \div 2, IntMod + 1}, channels \in {1, 3},
          interp \in {<<>>, <<"nearest", "spline", "lanczos">>} :
          ScaleCtor(width, height, channels, interp)
    \/ \E channels \in {1, 3} :
          BaseTransformStream("scale", DenseFloat(HWC(MaxDim, MaxDim, channels)))
    \/ \E id \in {0, MaxId}, rows, cols, channels \in Dims :
          ScaleBegin(1, id, rows, cols, channels)
    \/ ScaleResize(1)
    \/ ScaleEnd(1)

SpecScale == Init /\ [][NextScale]_vars

\* One worker and the mean transformer. The elements of a buffer are small
\* integers; Ramp(n, k) is the buffer k, k+1, ...
Ramp(n, k) == [i \in 1 .. n |-> k + i - 1]
MeanFiles ==
    {NoFile, [kind |-> "unreadable"]} \cup
    {[kind |-> "file", Channel |-> ch, Row |-> r, Col |-> c, MeanImg |-> Ramp(n, 1)] :
        ch \in 1 .. 2, r \in 1 .. 2, c \in 1 .. 2, n \in {2, 4, 8}}
Samples ==
    {[rows |-> r, cols |-> c, channels |-> ch, data |-> Ramp(r * c * ch, k)] :
        r \in 1 .. 2, c \in 1 .. 2, ch \in 1 .. 2, k \in {0, MaxDim}}

NextMean ==
    \/ \E file \in MeanFiles : MeanCtor(file)
    \/ BaseTransformStream("mean", DenseFloat(HWC(2, 2, 2)))
    \/ \E id \in {0, MaxId}, sample \in Samples : MeanTransform(1, id, sample)

SpecMean == Init /\ [][NextMean]_vars

\* One worker and the transpose transformer. The buffer of a sample holds
\* distinct elements, so that a misplaced element shows.
Buffer(n, k) == [i \in 0 .. (n - 1) |-> k + i]
NextTranspose ==
    \/ \E width, height, channels \in Dims, et \in {"tfloat", "tdouble"} :
          TransposeTransformStream(Stream("dense", et, HWC(width, height, channels)))
    \/ \E n \in 1 .. (MaxDim * MaxDim * MaxDim), k \in {1, MaxDim}, ns \in {1, 2} :
          TransposeBegin(1, [m_numberOfSamples |-> ns, m_data |-> Buffer(n, k)])
    \/ TransposeStep(1)
    \/ TransposeEnd(1)

SpecTranspose == Init /\ [][NextTranspose]_vars

\* Shape negotiation of the four transformers on every kind of stream, and
\* the samples the pipeline sends afterwards.
NextStream ==
    \/ CropCtor("Center", RatioDen, RatioDen, "None", "unset")
    \/ ScaleCtor(1, 1, 1, <<>>)
    \/ MeanCtor(NoFile)
    \/ \E t \in {"crop", "scale", "mean"}, in \in Streams(HWC(1, 2, 1)) :
          BaseTransformStream(t, in)
    \/ \E in \in Streams(HWC(1, 2, 1)) : TransposeTransformStream(in)
    \/ CropBegin(1, 0, 2, 1, 1)
    \/ CropJitter(1)
    \/ CropRectFlip(1)
    \/ CropEnd(1)
    \/ ScaleBegin(1, 0, 2, 1, 1)
    \/ ScaleResize(1)
    \/ ScaleEnd(1)
    \/ MeanTransform(1, 0, [rows |-> 2, cols |-> 1, channels |-> 1, data |-> Ramp(2, 1)])
    \/ TransposeBegin(1, [m_numberOfSamples |-> 1, m_data |-> Buffer(2, 1)])
    \/ TransposeStep(1)
    \/ TransposeEnd(1)

SpecStream == Init /\ [][NextStream]_vars

\* ---------------------------------------------------------------- properties
Supported(in) ==
    in.m_storageType = "dense" /\ in.m_elementType \in {"tfloat", "tdouble"}

Returned(w, t) == result[w].t = t /\ result[w].status = "ok"

\* C1: the rectangle GetCropRect returns is a square of side
\* floor(min(rows, cols) * ratio) that lies inside the image, and its closing
\* assertions never fail, for every crop type, view, size, ratio and draw.
RectInBounds(r, rows, cols, ratio) ==
    /\ r.width = r.height
    /\ r.width * RatioDen <= Min(rows, cols) * ratio
    /\ Min(rows, cols) * ratio < (r.width + 1) * RatioDen
    /\ 0 <= r.x /\ 0 <= r.y
    /\ r.x + r.width <= cols
    /\ r.y + r.height <= rows

C1_CropRectInBounds ==
    \A w \in Workers :
        /\ (result[w].t = "crop" => result[w].status # "AssertionFailed")
        /\ (pc[w] = "push" /\ call[w].t = "crop" =>
              RectInBounds(call[w].rect, call[w].in.rows, call[w].in.cols, call[w].ratio))
        /\ (Returned(w, "crop") =>
              RectInBounds(result[w].rect, result[w].in.rows, result[w].in.cols,
                           result[w].ratio))

C1_Witness ==
    \E w \in Workers :
        /\ Returned(w, "crop")
        /\ crop.m_cropType = "Random"
        /\ result[w].rect.width > 0
        /\ result[w].rect.width < result[w].in.cols
        /\ result[w].rect.x > 0
        /\ result[w].rect.y + result[w].rect.height = result[w].in.rows

\* C2: no generator is held by two workers at once: a generator a worker
\* holds between pop_or_create and push is in no pool, is alive, and is held
\* by no other worker of the same transformer.
Holds(w, t) == call[w].t = t

C2_NoSharedGenerator ==
    \A t \in Pooled : \A w \in Workers :
        Holds(w, t) =>
            /\ call[w].rng \notin m_rngs[t]
            /\ call[w].rng \in gens[t].alive
            /\ \A v \in Workers \ {w} : Holds(v, t) => call[v].rng # call[w].rng

C2_Witness ==
    \E t \in Pooled : \E w, v \in Workers :
        /\ w # v
        /\ Holds(w, t) /\ Holds(v, t)
        /\ pc[w] = "push" /\ pc[v] = "push"
        /\ gens[t].created >= 2
        /\ m_rngs[t] = {}

\* C3: in MultiView10 mode two crops of the same sample id, input and ratio
\* yield the same rectangle and the same flip decision, and the result is
\* flipped exactly when the view index is at least 5, whatever hflip is.
C3_MultiViewPure ==
    /\ \A w, v \in Workers :
          (/\ crop.state = "ok" /\ crop.m_cropType = "MultiView10"
           /\ Returned(w, "crop") /\ Returned(v, "crop")
           /\ result[w].id = result[v].id
           /\ result[w].in = result[v].in
           /\ result[w].ratio = result[v].ratio)
          => /\ result[w].rect = result[v].rect
             /\ result[w].flipped = result[v].flipped
    /\ \A w \in Workers :
          (crop.state = "ok" /\ crop.m_cropType = "MultiView10" /\ Returned(w, "crop"))
          => (result[w].flipped <=> result[w].id % 10 >= 5)

\* C4 (as stated): every transformer's shape negotiation fails on a stream
\* that is not dense or whose element type is neither float nor double, and
\* no per-sample Transform is reached with such a stream.
C4_EveryNegotiationRejects ==
    \A t \in Transformers :
        (stream[t].status # "none" /\ ~Supported(stream[t].m_inputStream)) =>
            /\ stream[t].status # "ok"
            /\ \A w \in Workers : call[w].t # t /\ result[w].t # t

\* C4 (amended): the transformers derived from the base reject such a stream
\* at negotiation and no sample reaches them; the transpose transformer
\* rejects at negotiation a stream that is not dense only, and rejects an
\* element type that is neither float nor double in its per-sample
\* Transform, which then throws before TypedApply and returns no sample.
C4_NegotiationRejects ==
    /\ \A t \in {"crop", "scale", "mean"} :
          stream[t].status # "none" =>
              /\ (stream[t].status = "ok" <=> Supported(stream[t].m_inputStream))
              /\ (stream[t].status # "ok" =>
                     \A w \in Workers : call[w].t # t /\ result[w].t # t)
    /\ stream["transpose"].status # "none" =>
          LET in == stream["transpose"].m_inputStream IN
          /\ (stream["transpose"].status = "ok" <=> in.m_storageType = "dense")
          /\ (~Supported(in) =>
                 \A w \in Workers :
                     /\ call[w].t # "transpose"
                     /\ (result[w].t = "transpose" =>
                            /\ stream["transpose"].status = "ok"
                            /\ result[w].status = "RuntimeError"))

C4_Witness ==
    /\ stream["transpose"].status = "ok"
    /\ stream["transpose"].m_inputStream.m_elementType = "tatom"
    /\ result[1].t = "transpose"
    /\ stream["mean"].status = "RuntimeError"
    /\ stream["crop"].status = "LogicError"

\* C5: the element count of the sample layout of every sample a crop, scale
\* or mean transformer returns for a sample of the input stream's layout
\* equals the element count of the output stream layout it negotiated.
C5_ElementCount ==
    \A w \in Workers : \A t \in {"crop", "scale", "mean"} :
        (/\ Returned(w, t)
         /\ HWC(result[w].in.cols, result[w].in.rows, result[w].in.channels)
               = stream[t].m_inputStream.m_sampleLayout)
        => GetNumElements(result[w].m_sampleLayout)
              = GetNumElements(stream[t].m_outputStream.m_sampleLayout)

\* C6: the sample the scale transformer returns has the layout configured
\* width x configured height x configured channel count, for every input.
C6_ScaleShape ==
    \A w \in Workers :
        Returned(w, "scale") =>
            result[w].m_sampleLayout
               = HWC(scale.m_imgWidth, scale.m_imgHeight, scale.m_imgChannels)

\* C7: the mean transformer subtracts the mean image element-wise exactly
\* when its pixel dimensions and channel count equal the sample's, and in
\* every other case returns the buffer unchanged without error or
\* assertion failure.
C7_MeanExact ==
    \A w \in Workers :
        result[w].t = "mean" =>
            LET m == mean.m_meanImg
                s == result[w].in
            IN  /\ result[w].status = "ok"
                /\ result[w].data =
                     IF m.rows = s.rows /\ m.cols = s.cols /\ m.channels = s.channels
                     THEN [i \in 1 .. Len(s.data) |-> s.data[i] - m.data[i]]
                     ELSE s.data

\* C8: TypedApply stores the element at interleaved offset p*channelCount + c
\* at planar offset c*(rows*cols) + p; every element of the output is stored
\* exactly once, and the inverse mapping gives the input buffer back.
C8_TransposeBijection ==
    \A w \in Workers :
        Returned(w, "transpose") =>
            LET r == result[w]
                rc == r.m_sampleLayout.height * r.m_sampleLayout.width
                cc == r.m_sampleLayout.channels
                n == rc * cc
            IN  /\ \A p \in 0 .. (rc - 1) : \A c \in 0 .. (cc - 1) :
                      r.m_data[c * rc + p] = r.src[p * cc + c]
                /\ DOMAIN r.m_data = 0 .. (n - 1)
                /\ \A i \in 0 .. (n - 1) : r.written[i] = 1
                /\ Cardinality({c * rc + p : p \in 0 .. (rc - 1), c \in 0 .. (cc - 1)}) = n
                /\ [i \in 0 .. (n - 1) |-> r.m_data[(i % cc) * rc + (i \div cc)]] = r.src

C8_Witness ==
    \E w \in Workers :
        /\ Returned(w, "transpose")
        /\ result[w].m_sampleLayout.channels >= 2
        /\ result[w].m_sampleLayout.height >= 2
        /\ result[w].m_sampleLayout.width >= 2
        /\ result[w].m_data # result[w].src

\* C9: the scale constructor fails whenever width * height * channels is zero
\* or greater than half the maximum of size_t, wrapped products included.
C9_CtorRejects ==
    scale.state = "ok" =>
        LET product == scale.m_imgWidth * scale.m_imgHeight * scale.m_imgChannels
        IN  product # 0 /\ product <= SizeMax \div 2

\* C10: every generator a crop or scale Apply borrowed is back in the pool
\* when the Apply has ended, on the not-implemented path too: when no Apply
\* is in progress the pool holds every generator that was ever created.
C10_AllReturned ==
    (\A w \in Workers : pc[w] = "idle") =>
        \A t \in Pooled : m_rngs[t] = 1 .. gens[t].created
====
